---------------------------- MODULE Spec2Model ----------------------------
(***************************************************************************)
(* A model of project2/poker.py (deck helpers, the hand evaluator, the     *)
(* MCTS win-probability engine and the betting-round script).              *)
(*                                                                         *)
(* Conventions.  A card is <<rank, suit>>; a Python list or tuple is a     *)
(* sequence; Python's None is the number NoneVal where an integer is       *)
(* expected and the string "None" where a string is.  A call that can      *)
(* raise returns a record [raises, value]: raises is "None" for a normal   *)
(* return and the exception's class name otherwise.  Floating-point        *)
(* statistics are kept doubled (wins2 = 2 * wins), so that the outcomes    *)
(* 0.0, 0.5 and 1.0 are the integers 0, 1 and 2.                           *)
(***************************************************************************)
EXTENDS Integers, Sequences, FiniteSets, TLC

VARIABLES
    cards,      \* evaluate_hand's argument (the caller's 7 cards in a showdown)
    cards2,     \* the opponent's cards in a showdown
    desc,       \* what evaluate_hand(cards) did: [raises, value], or NotCalled
    desc2,      \* the same for cards2
    outcome2,   \* twice the showdown's outcome (0, 1, 2), or NoOutcome
    deck,       \* the script's deck (a list of cards, the top first)
    num,        \* the count passed to the last deal_cards call
    dealt,      \* what the last deal_cards call did: [raises, value]
    my_hole,    \* the script's hole cards
    community,  \* the script's community cards
    rounds,     \* the betting rounds run so far: the engine call and the prints
    pc,         \* where the script is
    exit_code,  \* the script's exit status, or NotExited
    hole_cards,      \* mcts_decision's arguments
    community_cards,
    deck_copy,
    time_limit,
    elapsed,    \* time.time() - start, in ticks of the clock
    nodes,      \* the Node objects made so far, the root first
    node_sel,   \* the node simulated by the last iteration (0: None)
    mpc,        \* "loop", "returned" or "raised"
    mresult,    \* what mcts_decision did: [raises, value]
    fs_ranks,   \* find_straight's argument
    fs_top,     \* what find_straight(fs_ranks) did: [raises, value], or NotCalled
    grid,       \* planner.py: the world's rows of "_" and "#" cells
    start_state,     \* the state the search starts from: <<r, c, dirty>>
    algo,            \* "depth-first" or "uniform-cost"
    stack,           \* depth_first_search: the list of <<state, path>>
    visited,         \* depth_first_search: the set of states seen
    frontier,        \* uniform_cost_search: the heap's entries
    entry_count,
    best_cost,       \* uniform_cost_search: the dict from state to cost
    nodes_generated,
    nodes_expanded,
    expansions, \* the <<cost, state>> popped by each iteration so far
    presult     \* what the search did: [raises, value], or NotCalled

evalVars == <<cards, cards2, desc, desc2, outcome2>>

dealVars == <<deck, num, dealt>>

mainVars == <<my_hole, community, rounds, pc, exit_code>>

mctsArgs == <<hole_cards, community_cards, deck_copy, time_limit>>

mctsVars == <<mctsArgs, elapsed, nodes, node_sel, mpc, mresult>>

straightVars == <<fs_ranks, fs_top>>

planArgs == <<grid, start_state, algo>>

planVars ==
    <<planArgs, stack, visited, frontier, entry_count, best_cost,
      nodes_generated, nodes_expanded, expansions, presult>>

vars == <<evalVars, dealVars, mainVars, mctsVars, straightVars, planVars>>

-----------------------------------------------------------------------------
(* Python values *)

NoneVal == 0

NotCalled == [raises |-> "NotCalled", value |-> <<>>]

Ret(v) == [raises |-> "None", value |-> v]

Raise(e) == [raises |-> e, value |-> <<>>]

Min(a, b) == IF a <= b THEN a ELSE b

\* seq[:k]
Take(seq, k) == SubSeq(seq, 1, Min(k, Len(seq)))

\* seq[k:]
Drop(seq, k) == SubSeq(seq, Min(k, Len(seq)) + 1, Len(seq))

Elems(seq) == {seq[i] : i \in DOMAIN seq}

\* seq.count(x)
Count(seq, x) == Cardinality({i \in DOMAIN seq : seq[i] = x})

SetMax(S) == CHOOSE m \in S : \A x \in S : x <= m

SetMin(S) == CHOOSE m \in S : \A x \in S : m <= x

\* sorted(S) of a set of integers
RECURSIVE SortedSet(_)
SortedSet(S) ==
    IF S = {} THEN <<>>
    ELSE LET m == SetMin(S) IN <<m>> \o SortedSet(S \ {m})

\* [x for x in seq if x != v]
RECURSIVE Without(_, _)
Without(seq, v) ==
    IF seq = <<>> THEN <<>>
    ELSE IF Head(seq) = v THEN Without(Tail(seq), v)
    ELSE <<Head(seq)>> \o Without(Tail(seq), v)

\* sorted(seq, reverse=True) of a list of integers
RECURSIVE SortedDesc(_)
SortedDesc(seq) ==
    IF seq = <<>> THEN <<>>
    ELSE LET m == SetMax(Elems(seq))
         IN [i \in 1..Count(seq, m) |-> m] \o SortedDesc(Without(seq, m))

\* The keys of Counter(seq), in insertion (first occurrence) order.
RECURSIVE CounterKeys(_)
CounterKeys(seq) ==
    IF seq = <<>> THEN <<>>
    ELSE <<Head(seq)>> \o CounterKeys(Without(Tail(seq), Head(seq)))

\* Python's comparison of two tuples of integers: a > b
RECURSIVE TupleGT(_, _)
TupleGT(a, b) ==
    IF a = <<>> THEN FALSE
    ELSE IF b = <<>> THEN TRUE
    ELSE IF Head(a) # Head(b) THEN Head(a) > Head(b)
    ELSE TupleGT(Tail(a), Tail(b))

-----------------------------------------------------------------------------
(* The deck *)

SUITS == <<"heart", "diamond", "club", "spade">>

MaxRank == 13

RANKS == [i \in 1..MaxRank |-> i]

\* [(rank, suit) for rank in RANKS for suit in SUITS]
create_deck ==
    [k \in 1..(Len(RANKS) * Len(SUITS)) |->
        <<RANKS[((k - 1) \div Len(SUITS)) + 1], SUITS[((k - 1) % Len(SUITS)) + 1]>>]

\* deal_cards that deals what is left when the deck is too short.
deal_cards_Truncating(d, n) ==
    [raises |-> "None", value |-> Take(d, n), deck |-> Drop(d, n)]

\* deal_cards(deck, num): the exception or the cards dealt, and the deck after.
deal_cards(d, n) ==
    IF n > Len(d)
    THEN [raises |-> "ValueError", value |-> <<>>, deck |-> d]
    ELSE [raises |-> "None", value |-> Take(d, n), deck |-> Drop(d, n)]

-----------------------------------------------------------------------------
(* The hand evaluator *)

\* The scan going on after a window qualifies: the highest straight, or None.
RECURSIVE ScanWindows_Highest(_, _)
ScanWindows_Highest(sorted_ranks, i) ==
    IF i > Len(sorted_ranks) - 4 THEN NoneVal
    ELSE LET window == SubSeq(sorted_ranks, i, i + 4)
             later == ScanWindows_Highest(sorted_ranks, i + 1)
         IN IF later # NoneVal THEN later
            ELSE IF window[5] - window[1] = 4 THEN window[5]
            ELSE NoneVal

\* The straight found by the ascending scan, or None.
RECURSIVE ScanWindows(_, _)
ScanWindows(sorted_ranks, i) ==
    IF i > Len(sorted_ranks) - 4 THEN NoneVal
    ELSE LET window == SubSeq(sorted_ranks, i, i + 4)
         IN IF window[5] - window[1] = 4 /\ Len(window) = 5
            THEN window[5]
            ELSE ScanWindows(sorted_ranks, i + 1)

\* find_straight without the Ace counted as 14.
find_straight_AceLowOnly(ranks) ==
    ScanWindows(SortedSet(Elems(ranks)), 1)

find_straight(ranks) ==
    LET ranks_set == Elems(ranks) \cup (IF 1 \in Elems(ranks) THEN {14} ELSE {})
        sorted_ranks == SortedSet(ranks_set)
    IN ScanWindows(sorted_ranks, 1)

RankList(cs) == [i \in DOMAIN cs |-> cs[i][1]]

SuitList(cs) == [i \in DOMAIN cs |-> cs[i][2]]

\* Lines 63-67 with count == 5 for count >= 5.
FlushSuit_ExactlyFive(cs) ==
    LET suits == SuitList(cs)
        IsFlushSuit(s) == Count(suits, s) = 5
        flush_suits == SelectSeq(CounterKeys(suits), IsFlushSuit)
    IN IF flush_suits = <<>> THEN "None" ELSE Head(flush_suits)

\* Lines 63-67: the first suit, in the Counter's order, held five times.
FlushSuit(cs) ==
    LET suits == SuitList(cs)
        IsFlushSuit(s) == Count(suits, s) >= 5
        flush_suits == SelectSeq(CounterKeys(suits), IsFlushSuit)
    IN IF flush_suits = <<>> THEN "None" ELSE Head(flush_suits)

\* Line 75
Fours(ranks) ==
    LET IsFour(r) == Count(ranks, r) = 4
    IN SelectSeq(CounterKeys(ranks), IsFour)

\* Line 81
Threes(ranks) ==
    LET IsThree(r) == Count(ranks, r) >= 3
    IN SortedDesc(SelectSeq(CounterKeys(ranks), IsThree))

\* Line 82 without "and r not in threes".
Pairs_WithThrees(ranks, threes) ==
    LET IsPair(r) == Count(ranks, r) >= 2
    IN SortedDesc(SelectSeq(CounterKeys(ranks), IsPair))

\* Line 82
Pairs(ranks, threes) ==
    LET IsPair(r) == Count(ranks, r) >= 2 /\ r \notin Elems(threes)
    IN SortedDesc(SelectSeq(CounterKeys(ranks), IsPair))

\* Lines 77-79 with the kickers sorted ascending.
FourOfAKind_LowestKicker(ranks, fours) ==
    LET quad == fours[1]
        kickers == SortedDesc(Without(ranks, quad))
    IN IF kickers = <<>> THEN Raise("IndexError")
       ELSE Ret(<<8, quad, kickers[Len(kickers)]>>)

\* Lines 77-79 with the kicker read at index 1 instead of 0.
FourOfAKind_SecondKicker(ranks, fours) ==
    LET quad == fours[1]
        kickers == SortedDesc(Without(ranks, quad))
    IN IF Len(kickers) < 2 THEN Raise("IndexError")
       ELSE Ret(<<8, quad, kickers[2]>>)

\* Lines 77-79: kickers[0] raises IndexError on an empty list.
FourOfAKind(ranks, fours) ==
    LET quad == fours[1]
        kickers == SortedDesc(Without(ranks, quad))
    IN IF kickers = <<>> THEN Raise("IndexError")
       ELSE Ret(<<8, quad, kickers[1]>>)

\* Lines 102-104: max() of an empty list raises ValueError.
TwoPair(ranks, pairs) ==
    LET top2 == Take(pairs, 2)
        NotTop2(r) == r \notin Elems(top2)
        rest == SelectSeq(ranks, NotTop2)
    IN IF rest = <<>> THEN Raise("ValueError")
       ELSE Ret(<<3, top2[1], top2[2], SetMax(Elems(rest))>>)

evaluate_hand(cs) ==
    LET ranks == RankList(cs)
        flush_suit == FlushSuit(cs)
        OfFlushSuit(c) == c[2] = flush_suit
        suited == RankList(SelectSeq(cs, OfFlushSuit))
        top_sf == IF flush_suit # "None" THEN find_straight(suited) ELSE NoneVal
        fours == Fours(ranks)
        threes == Threes(ranks)
        pairs == Pairs(ranks, threes)
        top_s == find_straight(ranks)
    IN  IF top_sf # NoneVal THEN Ret(<<9, top_sf>>)
        ELSE IF fours # <<>> THEN FourOfAKind(ranks, fours)
        ELSE IF threes # <<>> /\ pairs # <<>> THEN Ret(<<7, threes[1], pairs[1]>>)
        ELSE IF Len(threes) >= 2 THEN Ret(<<7, threes[1], threes[2]>>)
        ELSE IF flush_suit # "None" THEN
            Ret(<<6>> \o Take(SortedDesc(suited), 5))
        ELSE IF top_s # NoneVal THEN Ret(<<5, top_s>>)
        ELSE IF threes # <<>> THEN
            LET trips == threes[1]
            IN Ret(<<4, trips>> \o Take(SortedDesc(Without(ranks, trips)), 2))
        ELSE IF Len(pairs) >= 2 THEN TwoPair(ranks, pairs)
        ELSE IF pairs # <<>> THEN
            LET pr == pairs[1]
            IN Ret(<<2, pr>> \o Take(SortedDesc(Without(ranks, pr)), 3))
        ELSE Ret(<<1>> \o Take(SortedDesc(ranks), 5))

\* Lines 146-148: the caller's outcome of a showdown, doubled.
Outcome2(bot_eval, opp_eval) ==
    IF TupleGT(bot_eval, opp_eval) THEN 2
    ELSE IF bot_eval = opp_eval THEN 1 ELSE 0

-----------------------------------------------------------------------------
(* Inputs of the evaluator: hands dealt from the top of a shuffled deck *)

\* Outcomes of shuffle_deck(create_deck()): the cards on top of the deck.
TopCards ==
    << << <<2, "heart">>, <<3, "heart">>, <<4, "heart">>, <<5, "heart">>,
          <<7, "heart">>, <<7, "diamond">>, <<7, "club">>, <<5, "diamond">>,
          <<6, "diamond">>, <<7, "spade">>, <<6, "heart">>, <<9, "club">>,
          <<13, "spade">> >>,
       << <<10, "heart">>, <<11, "heart">>, <<12, "heart">>, <<13, "heart">>,
          <<1, "heart">>, <<9, "heart">>, <<1, "diamond">>, <<13, "diamond">>,
          <<9, "diamond">>, <<1, "club">>, <<8, "heart">>, <<12, "spade">>,
          <<2, "club">> >>,
       << <<1, "heart">>, <<2, "heart">>, <<3, "heart">>, <<4, "heart">>,
          <<5, "heart">>, <<1, "diamond">>, <<1, "club">>, <<1, "spade">>,
          <<5, "spade">>, <<6, "heart">>, <<4, "club">>, <<11, "club">>,
          <<8, "diamond">> >>,
       << <<13, "club">>, <<2, "diamond">>, <<13, "spade">>, <<12, "heart">>,
          <<11, "diamond">>, <<9, "club">>, <<7, "spade">>, <<13, "diamond">>,
          <<3, "heart">>, <<12, "diamond">>, <<10, "heart">>, <<8, "club">>,
          <<4, "spade">> >> >>

\* The whole deck after the shuffle: the top cards, then the other cards.
ShuffledDeck(u) ==
    LET NotOnTop(c) == c \notin Elems(TopCards[u])
    IN TopCards[u] \o SelectSeq(create_deck, NotOnTop)

\* The decks the hands are dealt from, one per shuffle.
Decks == [u \in DOMAIN TopCards |-> ShuffledDeck(u)]

\* The cards at the positions I of a deck, in deck order.
CardsAt(d, I) ==
    LET idx == SortedSet(I) IN [j \in 1..Len(idx) |-> d[idx[j]]]

\* How many of the top cards the evaluated hands are drawn from.
EvalDeckSize == 10

\* The same for the two hands of a showdown.
PairDeckSize == 8

MaxHand == 7

MinHand == 5

\* The hands of lo to hi cards among the top k cards of deck d.
HandsOf(d, k, lo, hi) ==
    {CardsAt(d, I) :
        I \in {J \in SUBSET (1..k) : Cardinality(J) >= lo /\ Cardinality(J) <= hi}}

EvalHands == [u \in DOMAIN Decks |-> HandsOf(Decks[u], EvalDeckSize, 0, MaxHand)]

PairHands == [u \in DOMAIN Decks |-> HandsOf(Decks[u], PairDeckSize, MinHand, MaxHand)]

AllHands == UNION {EvalHands[u] \cup PairHands[u] : u \in DOMAIN Decks}

\* evaluate_hand, tabulated once over the hands above.
EvalMemo == [h \in AllHands |-> evaluate_hand(h)]

Evaluate(h) == IF h \in AllHands THEN EvalMemo[h] ELSE evaluate_hand(h)

-----------------------------------------------------------------------------
(* The parts of the state a specification does not use *)

NotExited == -1

\* outcome before a showdown has set it
NoOutcome == -1

IdleEval ==
    /\ cards = <<>>
    /\ cards2 = <<>>
    /\ desc = NotCalled
    /\ desc2 = NotCalled
    /\ outcome2 = NoOutcome

IdleDeal ==
    /\ deck = <<>>
    /\ num = 0
    /\ dealt = NotCalled

IdleMcts ==
    /\ hole_cards = <<>>
    /\ community_cards = <<>>
    /\ deck_copy = <<>>
    /\ time_limit = 0
    /\ elapsed = 0
    /\ nodes = <<>>
    /\ node_sel = 0
    /\ mpc = "idle"
    /\ mresult = NotCalled

IdleStraight ==
    /\ fs_ranks = <<>>
    /\ fs_top = NotCalled

IdlePlan ==
    /\ grid = <<>>
    /\ start_state = <<>>
    /\ algo = "None"
    /\ stack = <<>>
    /\ visited = {}
    /\ frontier = {}
    /\ entry_count = 0
    /\ best_cost = <<>>
    /\ nodes_generated = 0
    /\ nodes_expanded = 0
    /\ expansions = <<>>
    /\ presult = NotCalled

IdleMain ==
    /\ my_hole = <<>>
    /\ community = <<>>
    /\ rounds = <<>>
    /\ pc = "idle"
    /\ exit_code = NotExited

-----------------------------------------------------------------------------
(* SpecEval: evaluate_hand applied to one hand of 0 to 7 distinct cards *)

InitEval ==
    /\ \E u \in DOMAIN TopCards : cards \in EvalHands[u]
    /\ cards2 = <<>>
    /\ desc = NotCalled
    /\ desc2 = NotCalled
    /\ outcome2 = NoOutcome
    /\ IdleDeal
    /\ IdleMain
    /\ IdleMcts
    /\ IdleStraight
    /\ IdlePlan

EvaluateHand ==
    /\ desc = NotCalled
    /\ desc' = Evaluate(cards)
    /\ UNCHANGED <<cards, cards2, desc2, outcome2, dealVars, mainVars, mctsVars, straightVars, planVars>>

NextEval == EvaluateHand

SpecEval == InitEval /\ [][NextEval]_vars

-----------------------------------------------------------------------------
(* SpecShowdown: lines 146-148 applied to two hands of 5 to 7 cards *)

InitShowdown ==
    /\ \E u \in DOMAIN TopCards :
         /\ cards \in PairHands[u]
         /\ cards2 \in PairHands[u]
    /\ desc = NotCalled
    /\ desc2 = NotCalled
    /\ outcome2 = NoOutcome
    /\ IdleDeal
    /\ IdleMain
    /\ IdleMcts
    /\ IdleStraight
    /\ IdlePlan

Showdown ==
    /\ desc = NotCalled
    /\ LET bot_eval == Evaluate(cards)
           opp_eval == Evaluate(cards2)
       IN /\ desc' = bot_eval
          /\ desc2' = opp_eval
          /\ outcome2' = Outcome2(bot_eval.value, opp_eval.value)
    /\ UNCHANGED <<cards, cards2, dealVars, mainVars, mctsVars, straightVars, planVars>>

NextShowdown == Showdown

SpecShowdown == InitShowdown /\ [][NextShowdown]_vars

-----------------------------------------------------------------------------
(* SpecDeal: deal_cards called again and again on a short deck *)

MaxDeckLen == 4

MaxDeal == 5

InitDeal ==
    /\ \E u \in DOMAIN Decks, d \in 0..MaxDeckLen : deck = Take(Decks[u], d)
    /\ num = 0
    /\ dealt = NotCalled
    /\ IdleEval
    /\ IdleMain
    /\ IdleMcts
    /\ IdleStraight
    /\ IdlePlan

DealCards ==
    /\ \E n \in 0..MaxDeal :
         LET r == deal_cards(deck, n)
         IN /\ num' = n
            /\ dealt' = [raises |-> r.raises, value |-> r.value]
            /\ deck' = r.deck
    /\ UNCHANGED <<evalVars, mainVars, mctsVars, straightVars, planVars>>

NextDeal == DealCards

SpecDeal == InitDeal /\ [][NextDeal]_vars

-----------------------------------------------------------------------------
(* SpecMain: the script of lines 158-216 *)

\* The visits the engine is given time for in a round of the script.
MaxMainVisits == 2

\* A probability n/d is the pair <<n, d>>; 0.0 is <<0, 1>>.
Zero == <<0, 1>>

\* root.wins / root.visits if root.visits else 0.0, from the doubled wins.
WinProb(wins2, visits) == IF visits # 0 THEN <<wins2, 2 * visits>> ELSE Zero

\* What mcts_decision may return: the ratio of any statistics the loop can
\* leave at the root (0 <= wins <= visits).
MctsReturns ==
    UNION {{WinProb(w, v) : w \in 0..(2 * v)} : v \in 0..MaxMainVisits}

\* "Stay" if win_prob > 0.5 else "Fold"
Decision_Strict(win_prob) ==
    IF 2 * win_prob[1] > win_prob[2] THEN "Stay" ELSE "Fold"

\* "Stay" if win_prob >= 0.5 else "Fold"
Decision(win_prob) ==
    IF 2 * win_prob[1] >= win_prob[2] THEN "Stay" ELSE "Fold"

\* The engine call, the prints and the decision of one round: the script's
\* state after it.  deck.copy() is passed, so the call leaves deck alone.
RunRound(name, hole, comm, d) ==
    \E win_prob \in MctsReturns :
        LET decision == Decision(win_prob)
        IN /\ rounds' = Append(rounds,
                  [name |-> name, hole |-> hole, community |-> comm,
                   deck |-> d, win_prob |-> win_prob, decision |-> decision])
           /\ IF decision = "Fold"
              THEN pc' = "exited" /\ exit_code' = 0
              ELSE pc' = name /\ exit_code' = exit_code

\* An uncaught exception ends the script with status 1.
Crash ==
    /\ pc' = "crashed"
    /\ exit_code' = 1
    /\ UNCHANGED rounds

InitMain ==
    /\ deck = create_deck
    /\ num = 0
    /\ dealt = NotCalled
    /\ my_hole = <<>>
    /\ community = <<>>
    /\ rounds = <<>>
    /\ pc = "start"
    /\ exit_code = NotExited
    /\ IdleEval
    /\ IdleMcts
    /\ IdleStraight
    /\ IdlePlan

\* Lines 159-177: shuffle, deal the hole cards, the pre-flop round.
PreFlop ==
    /\ pc = "start"
    /\ \E u \in DOMAIN Decks :
         LET hole == deal_cards(Decks[u], 2)
         IN /\ num' = 2
            /\ dealt' = [raises |-> hole.raises, value |-> hole.value]
            /\ deck' = hole.deck
            /\ my_hole' = hole.value
            /\ community' = <<>>
            /\ IF hole.raises # "None" THEN Crash
               ELSE RunRound("Pre-Flop", hole.value, <<>>, hole.deck)
    /\ UNCHANGED <<evalVars, mctsVars, straightVars, planVars>>

\* A round after the pre-flop: burn one card, deal n, extend the community
\* cards, run the round.
DealRound(name, n) ==
    LET burn == deal_cards(deck, 1)
        new == deal_cards(burn.deck, n)
    IN /\ num' = IF burn.raises # "None" THEN 1 ELSE n
       /\ dealt' = IF burn.raises # "None"
                   THEN [raises |-> burn.raises, value |-> burn.value]
                   ELSE [raises |-> new.raises, value |-> new.value]
       /\ deck' = new.deck
       /\ community' = community \o new.value
       /\ my_hole' = my_hole
       /\ IF burn.raises # "None" \/ new.raises # "None" THEN Crash
          ELSE RunRound(name, my_hole, community \o new.value, new.deck)
       /\ UNCHANGED <<evalVars, mctsVars, straightVars, planVars>>

\* Lines 179-190
Flop == pc = "Pre-Flop" /\ DealRound("Flop", 3)

\* Lines 192-203
Turn == pc = "Flop" /\ DealRound("Turn", 1)

\* Lines 205-216, and the end of the script
River ==
    /\ pc = "Turn"
    /\ DealRound("River", 1)

\* The script runs off its end after a river round that stays.
Finish ==
    /\ pc = "River"
    /\ pc' = "exited"
    /\ exit_code' = 0
    /\ UNCHANGED <<evalVars, dealVars, mctsVars, my_hole, community, rounds, straightVars, planVars>>

NextMain == PreFlop \/ Flop \/ Turn \/ River \/ Finish

SpecMain == InitMain /\ [][NextMain]_vars

-----------------------------------------------------------------------------
(* The search tree and the engine, lines 36-43 and 114-156 *)

\* Node(hand, parent) with the parent argument dropped.
Node_Orphan(hand, parent) ==
    [hand |-> hand, parent |-> 0, children |-> <<>>, untried |-> <<>>,
     wins2 |-> 0, visits |-> 0]

\* Node(hand, parent): nodes are named by their place in the list nodes;
\* parent 0 is None, and the root's hand <<>> is None.
Node(hand, parent) ==
    [hand |-> hand, parent |-> parent, children |-> <<>>, untried |-> <<>>,
     wins2 |-> 0, visits |-> 0]

\* [c for c in deck if c not in hole_cards and c not in community_cards]
Available(d, hole, comm) ==
    LET Unseen(c) == c \notin Elems(hole) /\ c \notin Elems(comm)
    IN SelectSeq(d, Unseen)

\* list(itertools.combinations(seq, 2)), from the pair (seq[i], seq[j]) on
RECURSIVE CombinationsFrom(_, _, _)
CombinationsFrom(seq, i, j) ==
    IF i >= Len(seq) THEN <<>>
    ELSE IF j > Len(seq) THEN CombinationsFrom(seq, i + 1, i + 2)
    ELSE << <<seq[i], seq[j]>> >> \o CombinationsFrom(seq, i, j + 1)

Combinations2(seq) == CombinationsFrom(seq, 1, 2)

\* seq[i] read where seq.pop(i) is meant: the list is left whole.
RemoveAt_Reads(seq, i) == seq

\* seq.pop(i), the list left
RemoveAt(seq, i) == SubSeq(seq, 1, i - 1) \o SubSeq(seq, i + 1, Len(seq))

\* seq.remove(x), the list left (x is in seq)
ListRemove(seq, x) ==
    RemoveAt(seq, SetMin({i \in DOMAIN seq : seq[i] = x}))

\* 10^8 * ln(n) for n = 1..12, rounded down
LnE8 ==
    <<0, 69314718, 109861228, 138629436, 160943791, 179175946, 194591014,
      207944154, 219722457, 230258509, 239789527, 248490664>>

\* The integer square root of n, between lo and hi
RECURSIVE ISqrtIn(_, _, _)
ISqrtIn(n, lo, hi) ==
    IF lo >= hi THEN lo
    ELSE LET mid == (lo + hi + 1) \div 2
         IN IF mid * mid <= n THEN ISqrtIn(n, mid, hi) ELSE ISqrtIn(n, lo, mid - 1)

ISqrt(n) == ISqrtIn(n, 0, 32768)

\* 10^4 * ((c.wins / c.visits) + math.sqrt(2 * math.log(N) / c.visits)),
\* in integers: fine enough to order the scores of this many visits as the
\* floating-point scores are ordered.
Score(c, N) ==
    (c.wins2 * 5000) \div c.visits + ISqrt((2 * LnE8[N]) \div c.visits)

\* Lines 133-138: the first child of the strictly greatest score; None
\* (node 0) when there is no child.
RECURSIVE BestFrom(_, _, _, _, _)
BestFrom(ns, kids, k, best, best_score) ==
    IF k > Len(kids) THEN [raises |-> "None", node |-> best]
    ELSE LET c == ns[kids[k]]
         IN IF c.visits = 0 THEN [raises |-> "ZeroDivisionError", node |-> best]
            ELSE IF ns[1].visits = 0 THEN [raises |-> "ValueError", node |-> best]
            ELSE IF best = 0 \/ Score(c, ns[1].visits) > best_score
                 THEN BestFrom(ns, kids, k + 1, kids[k], Score(c, ns[1].visits))
                 ELSE BestFrom(ns, kids, k + 1, best, best_score)

Select(ns) == BestFrom(ns, ns[1].children, 1, 0, 0)

\* Lines 150-154 without the walk to the parent.
Backprop_NodeOnly(ns, temp, out2) ==
    IF temp = 0 THEN ns
    ELSE [ns EXCEPT ![temp].visits = @ + 1, ![temp].wins2 = @ + out2]

\* Lines 150-154 with the visit counted on the simulated node only.
RECURSIVE Backprop_VisitsLeafOnly(_, _, _)
Backprop_VisitsLeafOnly(ns, temp, out2) ==
    IF temp = 0 THEN ns
    ELSE Backprop_VisitsLeafOnly(
             [ns EXCEPT ![temp].visits = IF ns[temp].children = <<>> THEN @ + 1 ELSE @,
                        ![temp].wins2 = @ + out2],
             ns[temp].parent, out2)

\* Lines 150-154: the walk from the simulated node up to the root.
RECURSIVE Backprop(_, _, _)
Backprop(ns, temp, out2) ==
    IF temp = 0 THEN ns
    ELSE Backprop([ns EXCEPT ![temp].visits = @ + 1, ![temp].wins2 = @ + out2],
                  ns[temp].parent, out2)

\* Line 145 with random.choice(sim_deck) for sim_deck.pop(): a card can be
\* drawn again.
RECURSIVE Draws_WithReplacement(_, _)
Draws_WithReplacement(sim_deck, n) ==
    IF n <= 0 THEN {<<>>}
    ELSE UNION {{<<sim_deck[i]>> \o rest : rest \in Draws_WithReplacement(sim_deck, n - 1)} :
                  i \in DOMAIN sim_deck}

\* The cards random.shuffle and the pops of line 145 can draw: every list of
\* n different cards of sim_deck.
RECURSIVE Draws(_, _)
Draws(sim_deck, n) ==
    IF n <= 0 THEN {<<>>}
    ELSE UNION {{<<sim_deck[i]>> \o rest : rest \in Draws(RemoveAt(sim_deck, i), n - 1)} :
                  i \in DOMAIN sim_deck}

\* The loop condition of line 124 with <= for <.
LoopCondition_OrEqual == elapsed <= time_limit

\* Line 124: time.time() - start < time_limit
LoopCondition == elapsed < time_limit

\* How many unseen cards the engine's deck holds at most.
MaxUnseen == 3

\* The longest time limit, in ticks; the shortest is -1.
MaxTimeLimit == 1

\* The most iterations the clock lets the loop run.
MaxIter == 5

CommunitySizes == {0, 3, 4, 5}

BoardSize == 5

\* The hands the engine gives to evaluate_hand: the hole cards or a candidate
\* pair, then a simulated board.
EngineHands ==
    UNION {LET d == Decks[u]
               hole == Take(d, 2)
               comm == SubSeq(d, 3, 2 + nc)
               avail == SubSeq(d, 3 + nc, 2 + nc + k)
               cands == Combinations2(avail)
           IN UNION {LET opp == cands[i]
                         sim_deck == ListRemove(ListRemove(avail, opp[1]), opp[2])
                     IN UNION {{hole \o comm \o drawn, opp \o comm \o drawn} :
                                 drawn \in Draws(sim_deck, BoardSize - nc)} :
                     i \in DOMAIN cands} :
           u \in DOMAIN Decks, nc \in CommunitySizes, k \in 0..MaxUnseen}

\* evaluate_hand, tabulated once over these hands.
EngineMemo == [h \in EngineHands |-> evaluate_hand(h)]

EvaluateInEngine(h) == IF h \in EngineHands THEN EngineMemo[h] ELSE evaluate_hand(h)

\* Lines 119-123: the state when the loop is first reached.
InitMcts ==
    /\ \E u \in DOMAIN Decks, nc \in CommunitySizes, k \in 0..MaxUnseen :
         /\ hole_cards = Take(Decks[u], 2)
         /\ community_cards = SubSeq(Decks[u], 3, 2 + nc)
         /\ deck_copy = SubSeq(Decks[u], 3 + nc, 2 + nc + k)
    /\ time_limit \in -1..MaxTimeLimit
    /\ elapsed = 0
    /\ nodes = << [Node(<<>>, 0) EXCEPT
                     !.untried = Combinations2(
                         Available(deck_copy, hole_cards, community_cards))] >>
    /\ node_sel = 0
    /\ mpc = "loop"
    /\ mresult = NotCalled
    /\ IdleEval
    /\ IdleDeal
    /\ IdleMain
    /\ IdleStraight
    /\ IdlePlan

\* sim_deck = deck for line 140: the list simulated on is the caller's own.
SimDeck_Alias(d, hole, comm) == [list |-> d, is_deck |-> TRUE]

\* Line 140: sim_deck is a list built anew; it is not the caller's deck.
SimDeck(d, hole, comm) == [list |-> Available(d, hole, comm), is_deck |-> FALSE]

\* The caller's deck once sim_deck has become the list left: only a sim_deck
\* that is the caller's deck changes it.  hole_cards and community_cards are
\* only read: lines 145-147 build new lists with + and list().
DeckAfter(sim, left) == IF sim.is_deck THEN left ELSE deck_copy

\* An exception leaves the loop and the call; ns is the tree at that point
\* and d the caller's deck.
RaiseInLoop(ns, node, e, d) ==
    /\ nodes' = ns
    /\ node_sel' = node
    /\ mpc' = "raised"
    /\ mresult' = Raise(e)
    /\ deck_copy' = d
    /\ UNCHANGED evalVars

\* Lines 139-154: simulation and backpropagation for the node chosen.
Simulate(ns, node) ==
    LET hand == ns[node].hand
        sim == SimDeck(deck_copy, hole_cards, community_cards)
        avail == sim.list
    IN IF hand[1] \notin Elems(avail)
       THEN RaiseInLoop(ns, node, "ValueError", DeckAfter(sim, avail))
       ELSE IF hand[2] \notin Elems(ListRemove(avail, hand[1]))
       THEN RaiseInLoop(ns, node, "ValueError",
                        DeckAfter(sim, ListRemove(avail, hand[1])))
       ELSE
         LET sim_deck == ListRemove(ListRemove(avail, hand[1]), hand[2])
             needed == BoardSize - Len(community_cards)
         IN IF needed > Len(sim_deck)
            THEN RaiseInLoop(ns, node, "IndexError", DeckAfter(sim, <<>>))
            ELSE \E drawn \in Draws(sim_deck, needed) :
                 \E bot_eval \in {EvaluateInEngine(hole_cards \o community_cards \o drawn)},
                    opp_eval \in {EvaluateInEngine(hand \o community_cards \o drawn)} :
                   LET sim_board == community_cards \o drawn
                       out2 == Outcome2(bot_eval.value, opp_eval.value)
                       NotDrawn(c) == c \notin Elems(drawn)
                       left == DeckAfter(sim, SelectSeq(sim_deck, NotDrawn))
                   IN IF bot_eval.raises # "None"
                      THEN RaiseInLoop(ns, node, bot_eval.raises, left)
                      ELSE IF opp_eval.raises # "None"
                      THEN RaiseInLoop(ns, node, opp_eval.raises, left)
                      ELSE /\ cards' = hole_cards \o sim_board
                           /\ cards2' = hand \o sim_board
                           /\ desc' = bot_eval
                           /\ desc2' = opp_eval
                           /\ outcome2' = out2
                           /\ nodes' = Backprop(ns, node, out2)
                           /\ node_sel' = node
                           /\ deck_copy' = left
                           /\ UNCHANGED <<mpc, mresult>>

\* Lines 124-154: one iteration of the loop.
Iterate ==
    /\ mpc = "loop"
    /\ LoopCondition
    /\ nodes[1].visits < MaxIter
    /\ IF nodes[1].untried # <<>>
       THEN \E i \in DOMAIN nodes[1].untried :
              LET child == Len(nodes) + 1
                  expanded ==
                      Append([nodes EXCEPT ![1].untried = RemoveAt(@, i),
                                           ![1].children = Append(@, child)],
                             Node(nodes[1].untried[i], 1))
              IN Simulate(expanded, child)
       ELSE LET best == Select(nodes)
            IN IF best.raises # "None"
               THEN RaiseInLoop(nodes, best.node, best.raises, deck_copy)
               ELSE IF best.node = 0
               THEN RaiseInLoop(nodes, 0, "AttributeError", deck_copy)
               ELSE Simulate(nodes, best.node)
    /\ UNCHANGED <<hole_cards, community_cards, time_limit, elapsed, dealVars, mainVars, straightVars, planVars>>

\* The clock moves on between two readings of line 124.
Tick ==
    /\ mpc = "loop"
    /\ elapsed < time_limit
    /\ elapsed' = elapsed + 1
    /\ UNCHANGED <<mctsArgs, nodes, node_sel, mpc, mresult, evalVars, dealVars, mainVars, straightVars, planVars>>

\* Lines 155-156
Return ==
    /\ mpc = "loop"
    /\ ~LoopCondition
    /\ mpc' = "returned"
    /\ mresult' = Ret(WinProb(nodes[1].wins2, nodes[1].visits))
    /\ UNCHANGED <<mctsArgs, elapsed, nodes, node_sel, evalVars, dealVars, mainVars, straightVars, planVars>>

NextMcts == Iterate \/ Tick \/ Return

SpecMcts == InitMcts /\ [][NextMcts]_vars

-----------------------------------------------------------------------------
(* SpecSimulation: the first iteration of the loop, on decks with enough     *)
(* unseen cards for a whole board to be drawn                                *)

\* How many unseen cards the deck of a single simulation holds at most.
MaxSimUnseen == 7

InitSimulation ==
    /\ \E u \in DOMAIN Decks, nc \in CommunitySizes, k \in 0..MaxSimUnseen :
         /\ hole_cards = Take(Decks[u], 2)
         /\ community_cards = SubSeq(Decks[u], 3, 2 + nc)
         /\ deck_copy = SubSeq(Decks[u], 3 + nc, 2 + nc + k)
    /\ time_limit = 1
    /\ elapsed = 0
    /\ nodes = << [Node(<<>>, 0) EXCEPT
                     !.untried = Combinations2(
                         Available(deck_copy, hole_cards, community_cards))] >>
    /\ node_sel = 0
    /\ mpc = "loop"
    /\ mresult = NotCalled
    /\ IdleEval
    /\ IdleDeal
    /\ IdleMain
    /\ IdleStraight
    /\ IdlePlan

FirstIteration ==
    /\ nodes[1].visits = 0
    /\ Iterate

NextSimulation == FirstIteration

SpecSimulation == InitSimulation /\ [][NextSimulation]_vars

-----------------------------------------------------------------------------
(* SpecStraight: find_straight applied to a list of ranks                    *)

\* How many different ranks the list holds at most (a hand has 7 cards).
MaxRanks == 7

\* Lists of ranks: ascending, and descending with every rank twice.
RankLists ==
    UNION {LET up == SortedSet(S) IN {up, SortedDesc(up \o up)} :
           S \in {T \in SUBSET Elems(RANKS) : Cardinality(T) <= MaxRanks}}

InitStraight ==
    /\ fs_ranks \in RankLists
    /\ fs_top = NotCalled
    /\ IdleEval
    /\ IdleDeal
    /\ IdleMain
    /\ IdleMcts
    /\ IdlePlan

FindStraight ==
    /\ fs_top = NotCalled
    /\ fs_top' = Ret(find_straight(fs_ranks))
    /\ UNCHANGED <<fs_ranks, evalVars, dealVars, mainVars, mctsVars, planVars>>

NextStraight == FindStraight

SpecStraight == InitStraight /\ [][NextStraight]_vars

-----------------------------------------------------------------------------
(* project1/planner.py: the vacuum-world planner.  A state is                *)
(* <<r, c, dirty>>, r and c counted from 0 and dirty a set of <<r, c>>.      *)

\* action_moves, in the order of the dict
action_moves ==
    << <<"N", <<-1, 0>> >>, <<"S", <<1, 0>> >>,
       <<"W", <<0, -1>> >>, <<"E", <<0, 1>> >> >>

\* rows and cols as read_world returns them with the grid
RowsOf(g) == Len(g)

ColsOf(g) == IF g = <<>> THEN 0 ELSE Len(g[1])

\* grid[r][c]
Cell(g, r, c) == g[r + 1][c + 1]

\* Lines 50-53 without the test for '#'.
MoveAllowed_ThroughWalls(g, nr, nc) ==
    0 <= nr /\ nr < RowsOf(g) /\ 0 <= nc /\ nc < ColsOf(g)

\* Line 52
MoveAllowed(g, nr, nc) ==
    0 <= nr /\ nr < RowsOf(g) /\ 0 <= nc /\ nc < ColsOf(g) /\ Cell(g, nr, nc) # "#"

\* get_successors(state, grid, rows, cols): what it yields, in order.
get_successors(state, g) ==
    LET r == state[1]
        c == state[2]
        dirty == state[3]
        Target(k) == <<r + action_moves[k][2][1], c + action_moves[k][2][2]>>
        Allowed(k) == MoveAllowed(g, Target(k)[1], Target(k)[2])
        moves == [j \in 1..Len(action_moves) |->
                     <<action_moves[j][1], <<Target(j)[1], Target(j)[2], dirty>> >>]
        kept == SelectSeq([j \in 1..Len(action_moves) |-> j], Allowed)
    IN [j \in 1..Len(kept) |-> moves[kept[j]]]
       \o (IF <<r, c>> \in dirty
           THEN << <<"V", <<r, c, dirty \ {<<r, c>>}>> >> >>
           ELSE <<>>)

\* What a search returns: (plan, generated, expanded); plan None is none.
Found(path, generated, expanded) ==
    Ret([none |-> FALSE, plan |-> path,
         generated |-> generated, expanded |-> expanded])

NotFound(generated, expanded) ==
    Ret([none |-> TRUE, plan |-> <<>>,
         generated |-> generated, expanded |-> expanded])

\* Lines 76-80: the loop over the successors of a state popped with path.
RECURSIVE DfsExpand(_, _, _, _, _)
DfsExpand(succs, path, stk, vis, gen) ==
    IF succs = <<>> THEN [stack |-> stk, visited |-> vis, generated |-> gen]
    ELSE LET act == Head(succs)[1]
             nxt == Head(succs)[2]
         IN IF nxt \notin vis
            THEN DfsExpand(Tail(succs), path,
                           Append(stk, <<nxt, Append(path, act)>>),
                           vis \cup {nxt}, gen + 1)
            ELSE DfsExpand(Tail(succs), path, stk, vis, gen + 1)

\* heapq.heappop with the entry pushed last taken for the least one.
HeapPop_Newest(fr) ==
    CHOOSE e \in fr : \A e2 \in fr : e2.count <= e.count

\* heapq.heappop(frontier): the least entry; (cost, count) orders the tuples,
\* every entry having a count of its own.
HeapPop(fr) ==
    CHOOSE e \in fr : \A e2 \in fr :
        e.cost < e2.cost \/ (e.cost = e2.cost /\ e.count <= e2.count)

\* Lines 103-109: the loop over the successors of a state popped at cost.
RECURSIVE UcsExpand(_, _, _, _, _, _, _)
UcsExpand(succs, cost, path, fr, cnt, best, gen) ==
    IF succs = <<>>
    THEN [frontier |-> fr, entry_count |-> cnt, best_cost |-> best, generated |-> gen]
    ELSE LET act == Head(succs)[1]
             nxt == Head(succs)[2]
             new_cost == cost + 1
         IN IF nxt \notin DOMAIN best \/ new_cost < best[nxt]
            THEN UcsExpand(Tail(succs), cost, path,
                           fr \cup {[cost |-> new_cost, count |-> cnt + 1,
                                     state |-> nxt, path |-> Append(path, act)]},
                           cnt + 1,
                           [x \in DOMAIN best \cup {nxt} |->
                               IF x = nxt THEN new_cost ELSE best[x]],
                           gen + 1)
            ELSE UcsExpand(Tail(succs), cost, path, fr, cnt, best, gen + 1)

\* The grids of the worlds read: "_" is a free cell and "#" a blocked one.
Grids ==
    << << <<"_", "#", "_">> >>,
       << <<"_", "_">>,
          <<"_", "_">> >>,
       << <<"_", "#", "_">>,
          <<"#", "_", "_">> >>,
       << <<"_", "#", "_">>,
          <<"_", "#", "_">>,
          <<"_", "_", "_">> >>,
       << <<"_", "_", "_">>,
          <<"_", "_", "_">> >> >>

\* How many dirty cells a world has at most.
MaxDirty == 2

FreeCells(g) ==
    {rc \in (0..(RowsOf(g) - 1)) \X (0..(ColsOf(g) - 1)) : Cell(g, rc[1], rc[2]) # "#"}

\* Lines 121-122, after read_world: the '@' cell and the '*' cells of a world
\* are different free cells of its grid.
InitPlan ==
    /\ \E u \in DOMAIN Grids :
         /\ grid = Grids[u]
         /\ \E start \in FreeCells(grid),
               dirty \in {D \in SUBSET FreeCells(grid) : Cardinality(D) <= MaxDirty} :
              /\ start \notin dirty
              /\ start_state = <<start[1], start[2], dirty>>
    /\ algo \in {"depth-first", "uniform-cost"}
    /\ stack = IF algo = "depth-first" THEN << <<start_state, <<>> >> >> ELSE <<>>
    /\ visited = IF algo = "depth-first" THEN {start_state} ELSE {}
    /\ frontier = IF algo = "uniform-cost"
                  THEN {[cost |-> 0, count |-> 0, state |-> start_state, path |-> <<>>]}
                  ELSE {}
    /\ entry_count = 0
    /\ best_cost = IF algo = "uniform-cost" THEN (start_state :> 0) ELSE <<>>
    /\ nodes_generated = 0
    /\ nodes_expanded = 0
    /\ expansions = <<>>
    /\ presult = NotCalled
    /\ IdleEval
    /\ IdleDeal
    /\ IdleMain
    /\ IdleMcts
    /\ IdleStraight

\* Lines 68-80: one iteration of depth_first_search's loop.
DfsStep ==
    /\ algo = "depth-first"
    /\ presult = NotCalled
    /\ stack # <<>>
    /\ LET state == stack[Len(stack)][1]
           path == stack[Len(stack)][2]
           popped == SubSeq(stack, 1, Len(stack) - 1)
           dirty == state[3]
       IN /\ nodes_expanded' = nodes_expanded + 1
          /\ expansions' = Append(expansions, <<Len(path), state>>)
          /\ IF dirty = {}
             THEN /\ presult' = Found(path, nodes_generated, nodes_expanded + 1)
                  /\ stack' = popped
                  /\ UNCHANGED <<visited, nodes_generated>>
             ELSE \E after \in {DfsExpand(get_successors(state, grid), path,
                                           popped, visited, nodes_generated)} :
                     /\ stack' = after.stack
                     /\ visited' = after.visited
                     /\ nodes_generated' = after.generated
                     /\ presult' = presult
    /\ UNCHANGED <<planArgs, frontier, entry_count, best_cost>>
    /\ UNCHANGED <<evalVars, dealVars, mainVars, mctsVars, straightVars>>

\* Lines 81-82: the stack is empty.
DfsFail ==
    /\ algo = "depth-first"
    /\ presult = NotCalled
    /\ stack = <<>>
    /\ presult' = NotFound(nodes_generated, nodes_expanded)
    /\ UNCHANGED <<planArgs, stack, visited, frontier, entry_count, best_cost,
                   nodes_generated, nodes_expanded, expansions>>
    /\ UNCHANGED <<evalVars, dealVars, mainVars, mctsVars, straightVars>>

\* Lines 94-109: one iteration of uniform_cost_search's loop.
UcsStep ==
    /\ algo = "uniform-cost"
    /\ presult = NotCalled
    /\ frontier # {}
    /\ \E e \in {HeapPop(frontier)} :
       LET popped == frontier \ {e}
           dirty == e.state[3]
       IN IF e.state \in DOMAIN best_cost /\ e.cost > best_cost[e.state]
          THEN /\ frontier' = popped
               /\ UNCHANGED <<entry_count, best_cost, nodes_generated,
                              nodes_expanded, expansions, presult>>
          ELSE /\ nodes_expanded' = nodes_expanded + 1
               /\ expansions' = Append(expansions, <<e.cost, e.state>>)
               /\ IF dirty = {}
                  THEN /\ presult' = Found(e.path, nodes_generated, nodes_expanded + 1)
                       /\ frontier' = popped
                       /\ UNCHANGED <<entry_count, best_cost, nodes_generated>>
                  ELSE \E after \in {UcsExpand(get_successors(e.state, grid),
                                                e.cost, e.path, popped, entry_count,
                                                best_cost, nodes_generated)} :
                          /\ frontier' = after.frontier
                          /\ entry_count' = after.entry_count
                          /\ best_cost' = after.best_cost
                          /\ nodes_generated' = after.generated
                          /\ presult' = presult
    /\ UNCHANGED <<planArgs, stack, visited>>
    /\ UNCHANGED <<evalVars, dealVars, mainVars, mctsVars, straightVars>>

\* Lines 110-111: the frontier is empty.
UcsFail ==
    /\ algo = "uniform-cost"
    /\ presult = NotCalled
    /\ frontier = {}
    /\ presult' = NotFound(nodes_generated, nodes_expanded)
    /\ UNCHANGED <<planArgs, stack, visited, frontier, entry_count, best_cost,
                   nodes_generated, nodes_expanded, expansions>>
    /\ UNCHANGED <<evalVars, dealVars, mainVars, mctsVars, straightVars>>

NextPlan == DfsStep \/ DfsFail \/ UcsStep \/ UcsFail

\* The search is one sequential loop: an iteration that can run does run.
SpecPlan == InitPlan /\ [][NextPlan]_vars /\ WF_vars(NextPlan)

-----------------------------------------------------------------------------
(* The rules of poker, for the claims that speak of a hand's best five cards *)

HighRank(r) == IF r = 1 THEN 14 ELSE r

\* The rank of a five-card hand by the rules: <<category, the five ranks>>,
\* the ranks ordered by multiplicity and then height, the Ace high except
\* in the wheel.
PokerKey(five) ==
    LET low == RankList(five)
        wheel == Elems(low) = {1, 2, 3, 4, 5}
        rs == IF wheel THEN low ELSE [i \in DOMAIN low |-> HighRank(low[i])]
        flush == Cardinality(Elems(SuitList(five))) = 1
        straight == /\ Cardinality(Elems(rs)) = 5
                    /\ SetMax(Elems(rs)) - SetMin(Elems(rs)) = 4
        mult == {Count(rs, r) : r \in Elems(rs)}
        npairs == Cardinality({r \in Elems(rs) : Count(rs, r) = 2})
        category == IF flush /\ straight THEN 9
                    ELSE IF 4 \in mult THEN 8
                    ELSE IF 3 \in mult /\ 2 \in mult THEN 7
                    ELSE IF flush THEN 6
                    ELSE IF straight THEN 5
                    ELSE IF 3 \in mult THEN 4
                    ELSE IF npairs = 2 THEN 3
                    ELSE IF npairs = 1 THEN 2
                    ELSE 1
        weights == SortedDesc([i \in DOMAIN rs |-> Count(rs, rs[i]) * 15 + rs[i]])
    IN <<category>> \o [i \in DOMAIN weights |-> weights[i] % 15]

FiveOf(h) == {CardsAt(h, I) : I \in {J \in SUBSET DOMAIN h : Cardinality(J) = 5}}

\* The best five-card hand the cards of h make, as a PokerKey.
BestKey(h) ==
    LET keys == {PokerKey(f) : f \in FiveOf(h)}
    IN CHOOSE k \in keys : \A k2 \in keys : ~TupleGT(k2, k)

AllPairHands == UNION {PairHands[u] : u \in DOMAIN Decks}

BestMemo == [h \in AllPairHands |-> BestKey(h)]

Evaluated == desc.raises # "NotCalled"

Reverse(seq) == [i \in DOMAIN seq |-> seq[Len(seq) + 1 - i]]

RoyalFlush(cs) ==
    /\ Len(cs) = 5
    /\ Elems(RankList(cs)) = {10, 11, 12, 13, 1}
    /\ Cardinality(Elems(SuitList(cs))) = 1

-----------------------------------------------------------------------------
(* Claims about the hand evaluator *)

\* C4, as stated: the ace-high straight flush (10, J, Q, K, A of one suit)
\* evaluates to the descriptor (9, 13).
C4_AsStated ==
    (Evaluated /\ RoyalFlush(cards)) => desc = Ret(<<9, 13>>)

\* C4, amended: the ace-high straight flush (10, J, Q, K, A of one suit)
\* evaluates to the descriptor (9, 14), the Ace counting as the virtual 14.
C4_RoyalFlushIs914 ==
    (Evaluated /\ RoyalFlush(cards)) => desc = Ret(<<9, 14>>)

\* A royal flush has been evaluated.
C4_Witness == Evaluated /\ RoyalFlush(cards)

\* C5: two 7-card hands with the same best five cards (same category, same
\* five rank values) get equal descriptors, and the showdown is a tie.
C5_SameBestFiveTies ==
    (/\ Evaluated
     /\ Len(cards) = 7
     /\ Len(cards2) = 7
     /\ BestMemo[cards] = BestMemo[cards2])
    => (desc.value = desc2.value /\ outcome2 = 1)

\* C6: evaluate_hand called with fewer than 5 cards fails with an
\* invalid-argument error (ValueError) and returns no descriptor.
C6_FewCardsRaise ==
    (Evaluated /\ Len(cards) < MinHand) => desc.raises = "ValueError"

\* C9: for 5 to 7 distinct cards evaluate_hand does not raise, its category is
\* in 1..9, and the descriptor is the same whatever order the cards come in.
C9_TotalDeterministic ==
    (Evaluated /\ Len(cards) >= MinHand /\ Len(cards) <= MaxHand) =>
        /\ desc.raises = "None"
        /\ desc.value[1] \in 1..9
        /\ evaluate_hand(Reverse(cards)) = desc
        /\ evaluate_hand(Tail(cards) \o <<Head(cards)>>) = desc

\* Seven cards holding four of a kind have been evaluated.
C9_Witness ==
    /\ Evaluated
    /\ Len(cards) = MaxHand
    /\ desc.raises = "None"
    /\ desc.value[1] = 8

\* C10: a hand whose best available category is higher than another's
\* evaluates strictly greater, and the reported category is the best one.
C10_HigherCategoryWins ==
    (Evaluated /\ BestMemo[cards][1] > BestMemo[cards2][1]) =>
        /\ TupleGT(desc.value, desc2.value)
        /\ outcome2 = 2
        /\ desc.value[1] = BestMemo[cards][1]
        /\ desc2.value[1] = BestMemo[cards2][1]

\* A full house has met a flush in a showdown.
C10_Witness ==
    /\ Evaluated
    /\ BestMemo[cards][1] = 7
    /\ BestMemo[cards2][1] = 6
    /\ outcome2 = 2

\* The ranks held four times among the cards cs.
QuadRanks(cs) == {r \in Elems(RANKS) : Count(RankList(cs), r) = 4}

\* C11: a hand of 5 to 7 distinct cards holding four cards of one rank
\* evaluates to (8, that rank, the highest rank among the other cards).
C11_QuadsDescriptor ==
    (Evaluated /\ Len(cards) >= MinHand /\ Len(cards) <= MaxHand) =>
        \A q \in QuadRanks(cards) :
            desc = Ret(<<8, q, SetMax(Elems(RankList(cards)) \ {q})>>)

\* Six cards holding the four aces and two different kickers have been
\* evaluated.
C11_Witness ==
    /\ Evaluated
    /\ Len(cards) = 6
    /\ QuadRanks(cards) = {1}
    /\ Cardinality(Elems(RankList(cards))) = 3

\* The rank that follows r in a run, the Ace (1) following the King (13).
RunRank(r) == IF r = 14 THEN 1 ELSE r

\* The cards cs hold five cards of one suit with consecutive ranks, the Ace
\* low or high.
HoldsStraightFlush(cs) ==
    \E s \in Elems(SUITS), lo \in 1..10 :
        \A i \in 0..4 : <<RunRank(lo + i), s>> \in Elems(cs)

\* C12: a hand of 5 to 7 distinct cards that holds five cards of one suit
\* with consecutive ranks (the Ace low or high) evaluates to category 9.
C12_StraightFlushIsNine ==
    (/\ Evaluated
     /\ Len(cards) >= MinHand
     /\ Len(cards) <= MaxHand
     /\ HoldsStraightFlush(cards))
    => (desc.raises = "None" /\ desc.value[1] = 9)

\* A straight flush among six cards of its suit, and one other card, has been
\* evaluated.
C12_Witness ==
    /\ Evaluated
    /\ Len(cards) = MaxHand
    /\ HoldsStraightFlush(cards)
    /\ Count(SuitList(cards), cards[1][2]) = 6

\* The distinct ranks of rs, with 14 when the Ace (1) is among them.
WithHighAce(rs) == Elems(rs) \cup (IF 1 \in Elems(rs) THEN {14} ELSE {})

\* The low ends of the runs of 5 consecutive values among them.
RunStarts(rs) == {lo \in 1..10 : \A i \in 0..4 : lo + i \in WithHighAce(rs)}

\* C17: find_straight returns None when the distinct ranks (with 14 for an
\* Ace) hold no 5 consecutive values, and otherwise the top of the lowest
\* such run.
C17_LowestRun ==
    fs_top # NotCalled =>
        fs_top = Ret(IF RunStarts(fs_ranks) = {} THEN NoneVal
                     ELSE SetMin(RunStarts(fs_ranks)) + 4)

\* The ranks hold the wheel and the run 2..6, with one rank more, and the
\* wheel's 5 is returned.
C17_Witness ==
    /\ fs_top = Ret(5)
    /\ RunStarts(fs_ranks) = {1, 2}
    /\ Cardinality(Elems(fs_ranks)) = MaxRanks

-----------------------------------------------------------------------------
(* Claims about the engine *)

Root == nodes[1]

InitialCandidates ==
    Combinations2(Available(deck_copy, hole_cards, community_cards))

InUnitInterval(p) == 0 <= p[1] /\ p[1] <= p[2] /\ p[2] > 0

\* C1: called with a positive time_limit and fewer than two unseen cards (no
\* candidate pair), mcts_decision raises nothing and returns exactly 0.0.
C1_NoCandidatesReturnsZero ==
    (time_limit > 0 /\ InitialCandidates = <<>>) =>
        /\ mpc # "raised"
        /\ (mpc = "returned" => mresult = Ret(Zero))

\* C2: at every loop boundary 0 <= root.wins <= root.visits, and every value
\* returned is root.wins / root.visits, or 0.0 when root.visits is 0, and so
\* lies in [0, 1].
C2_ResultInUnitInterval ==
    /\ mpc = "loop" => (0 <= Root.wins2 /\ Root.wins2 <= 2 * Root.visits)
    /\ mpc = "returned" =>
         /\ mresult.raises = "None"
         /\ InUnitInterval(mresult.value)
         /\ Root.visits = 0 => mresult.value = Zero
         /\ Root.visits > 0 => mresult.value = <<Root.wins2, 2 * Root.visits>>

\* The engine has returned after three or more iterations with both wins
\* and losses at the root.
C2_Witness ==
    /\ mpc = "returned"
    /\ Root.visits >= 3
    /\ 0 < Root.wins2
    /\ Root.wins2 < 2 * Root.visits

\* C3: with time_limit <= 0 the loop body never runs (no child node, no
\* candidate taken from untried, root.visits 0) and 0.0 is returned.
C3_NoTimeNoIterations ==
    (mpc # "idle" /\ time_limit <= 0) =>
        /\ Len(nodes) = 1
        /\ Root.untried = InitialCandidates
        /\ Root.children = <<>>
        /\ Root.visits = 0
        /\ mpc # "raised"
        /\ (mpc = "returned" => mresult = Ret(Zero))

\* The engine has returned from a call with no time and candidates to try.
C3_Witness ==
    /\ mpc = "returned"
    /\ time_limit <= 0
    /\ Root.untried # <<>>

\* The visits of the nodes listed in kids, summed.
RECURSIVE SumVisits(_, _)
SumVisits(ns, kids) ==
    IF kids = <<>> THEN 0 ELSE ns[Head(kids)].visits + SumVisits(ns, Tail(kids))

\* The same for their (doubled) wins.
RECURSIVE SumWins2(_, _)
SumWins2(ns, kids) ==
    IF kids = <<>> THEN 0 ELSE ns[Head(kids)].wins2 + SumWins2(ns, Tail(kids))

\* A step that is one completed iteration of the loop.
IterationDone == mpc = "loop" /\ mpc' = "loop" /\ nodes' # nodes

\* The statistics of node i before the step (a node made by the step starts
\* at zero).
Before(i) == IF i \in DOMAIN nodes THEN nodes[i] ELSE Node(<<>>, 0)

\* C13: each completed iteration adds 1 to visits and the outcome to wins on
\* the simulated node and on the root and changes no other node's statistics;
\* so root.visits and root.wins are the sums over the children.
C13_BackpropStatistics ==
    /\ [](/\ Root.visits = SumVisits(nodes, Root.children)
          /\ Root.wins2 = SumWins2(nodes, Root.children))
    /\ [][IterationDone =>
            /\ node_sel' \in 2..Len(nodes')
            /\ outcome2' \in {0, 1, 2}
            /\ \A i \in DOMAIN nodes' :
                 IF i \in {1, node_sel'}
                 THEN /\ nodes'[i].visits = Before(i).visits + 1
                      /\ nodes'[i].wins2 = Before(i).wins2 + outcome2'
                 ELSE /\ i \in DOMAIN nodes
                      /\ nodes'[i].visits = nodes[i].visits
                      /\ nodes'[i].wins2 = nodes[i].wins2]_vars

\* Five iterations are done, three of them on one of three children.
C13_Witness ==
    /\ mpc = "loop"
    /\ Root.visits = 5
    /\ Len(nodes) = 4
    /\ \E i \in 2..4 : nodes[i].visits = 3

\* C14: the tree has depth at most 1: the root has no hand and no parent;
\* every other node has the root as parent, an empty untried list, no
\* children and a hand of two cards, and is listed among the root's children.
C14_DepthAtMostOne ==
    mpc # "idle" =>
        /\ Len(nodes) >= 1
        /\ Root.hand = <<>>
        /\ Root.parent = 0
        /\ Elems(Root.children) = 2..Len(nodes)
        /\ \A i \in 2..Len(nodes) :
             /\ nodes[i].parent = 1
             /\ nodes[i].untried = <<>>
             /\ nodes[i].children = <<>>
             /\ Len(nodes[i].hand) = 2

\* Three children exist, one of them chosen again by the selection, and
\* no candidate is left untried.
C14_Witness ==
    /\ mpc = "loop"
    /\ Len(nodes) = 4
    /\ Root.untried = <<>>
    /\ \E i \in 2..4 : nodes[i].visits = 2

\* The hands of the nodes listed in kids.
HandsOfNodes(ns, kids) == [j \in DOMAIN kids |-> ns[kids[j]].hand]

\* What holds of the candidates in every state: each initial pair is either
\* untried or the hand of exactly one child, the children are made in the
\* first iterations, and no score has divided by zero or taken log(0).
CandidatesKept ==
    mpc # "idle" =>
        LET hands == HandsOfNodes(nodes, Root.children)
            all == Root.untried \o hands
        IN /\ Len(Root.untried) + Len(Root.children) = Len(InitialCandidates)
           /\ Elems(all) = Elems(InitialCandidates)
           /\ Cardinality(Elems(all)) = Len(all)
           /\ mpc # "raised" =>
                Len(Root.children) = Min(Root.visits, Len(InitialCandidates))
           /\ mresult.raises \notin {"ZeroDivisionError", "ValueError"}

\* A step that is one iteration of the loop, completed or ended by a raise.
IterationStep == mpc = "loop" /\ (nodes' # nodes \/ mpc' = "raised")

\* The iteration takes one pair from root.untried and makes its child.
Expands ==
    /\ Len(nodes') = Len(nodes) + 1
    /\ node_sel' = Len(nodes')
    /\ nodes'[1].children = Append(Root.children, Len(nodes'))
    /\ \E i \in DOMAIN Root.untried :
         /\ nodes'[1].untried = RemoveAt(Root.untried, i)
         /\ nodes'[Len(nodes')].hand = Root.untried[i]

\* The iteration makes no node and takes no candidate.
Selects ==
    /\ Len(nodes') = Len(nodes)
    /\ nodes'[1].untried = <<>>
    /\ nodes'[1].children = Root.children

AllVisited ==
    /\ Root.visits >= 1
    /\ \A j \in DOMAIN Root.children : nodes[Root.children[j]].visits >= 1

SimBoard == Drop(cards, Len(hole_cards))

\* Enough unseen cards besides a candidate pair for the board to be completed.
EnoughUnseen ==
    Len(Available(deck_copy, hole_cards, community_cards)) - 2
        >= BoardSize - Len(community_cards)

\* C16: when enough unseen cards remain besides the candidate hand, the
\* simulation completes; its board has 5 distinct cards, starts with the
\* community cards and shares no card with the hole cards or the candidate
\* hand; both hands evaluated have 7 distinct cards; the outcome is 1.0, 0.5
\* or 0.0 as the caller's descriptor is greater, equal or less.
C16_SimulationBoard ==
    /\ (node_sel # 0 /\ EnoughUnseen) => (mpc # "raised" /\ outcome2 # NoOutcome)
    /\ (outcome2 # NoOutcome /\ mpc # "raised") =>
         LET hand == nodes[node_sel].hand
         IN /\ cards = hole_cards \o SimBoard
            /\ cards2 = hand \o SimBoard
            /\ Len(SimBoard) = BoardSize
            /\ Take(SimBoard, Len(community_cards)) = community_cards
            /\ Cardinality(Elems(SimBoard)) = BoardSize
            /\ Elems(SimBoard) \cap (Elems(hole_cards) \cup Elems(hand)) = {}
            /\ Cardinality(Elems(cards)) = 7
            /\ Cardinality(Elems(cards2)) = 7
            /\ desc.raises = "None" /\ desc2.raises = "None"
            /\ outcome2 = (IF TupleGT(desc.value, desc2.value) THEN 2
                           ELSE IF desc.value = desc2.value THEN 1
                           ELSE 0)
            /\ outcome2 = 0 => TupleGT(desc2.value, desc.value)

\* A whole board of five cards has been drawn before the flop and the caller
\* has won the showdown.
C16_Witness ==
    /\ outcome2 = 2
    /\ mpc = "loop"
    /\ community_cards = <<>>
    /\ Len(SimBoard) = BoardSize

\* C18: a call starts with a tree of its own, the bare root, and no step of
\* it changes the caller's hole_cards, community_cards or deck: the same
\* cards in the same order.
C18_ArgumentsUnchanged ==
    /\ (nodes = << [Node(<<>>, 0) EXCEPT !.untried = InitialCandidates] >>)
    /\ [][/\ hole_cards' = hole_cards
          /\ community_cards' = community_cards
          /\ deck_copy' = deck_copy]_vars

\* The call has returned after iterations that removed the candidate's cards
\* from sim_deck and drew a card from it.
C18_Witness ==
    /\ mpc = "returned"
    /\ Root.visits >= 2
    /\ Len(community_cards) = 4
    /\ Len(cards) = 7
    /\ Len(deck_copy) = 3

-----------------------------------------------------------------------------
(* Claims about the deck and the script *)

\* C7: deal_cards(deck, n) with n <= len(deck) returns the first n cards in
\* order and leaves the other cards in order; with n > len(deck) it raises
\* ValueError and leaves the deck as it was.
C7_DealContract ==
    [][/\ (num' <= Len(deck)) =>
            /\ dealt'.raises = "None"
            /\ Len(dealt'.value) = num'
            /\ Len(deck') = Len(deck) - num'
            /\ dealt'.value \o deck' = deck
       /\ (num' > Len(deck)) =>
            /\ dealt'.raises = "ValueError"
            /\ deck' = deck]_vars

\* A deal of more cards than a non-empty deck holds has raised.
C7_Witness ==
    /\ dealt.raises = "ValueError"
    /\ num > Len(deck)
    /\ deck # <<>>

RoundNames == <<"Pre-Flop", "Flop", "Turn", "River">>

\* The community cards after each round, and the cards dealt up to it.
CommunityAfter == <<0, 3, 4, 5>>

DealtAfter == <<2, 6, 8, 10>>

\* C8: the rounds run pre-flop, flop, turn, river in order; a round decides
\* Stay exactly when its win probability is >= 0.5; a round's cards are dealt
\* and its engine call made only if every earlier round decided Stay; the
\* first Fold ends the script with exit status 0.
C8_RoundSequence ==
    /\ Len(rounds) <= Len(RoundNames)
    /\ \A i \in DOMAIN rounds :
         /\ rounds[i].name = RoundNames[i]
         /\ rounds[i].decision \in {"Stay", "Fold"}
         /\ rounds[i].decision = "Stay" <=>
              2 * rounds[i].win_prob[1] >= rounds[i].win_prob[2]
         /\ i < Len(rounds) => rounds[i].decision = "Stay"
         /\ Len(rounds[i].community) = CommunityAfter[i]
         /\ Len(rounds[i].deck) = Len(create_deck) - DealtAfter[i]
    /\ rounds # <<>> =>
         /\ Len(community) = CommunityAfter[Len(rounds)]
         /\ Len(deck) = Len(create_deck) - DealtAfter[Len(rounds)]
         /\ rounds[Len(rounds)].decision = "Fold" => (pc = "exited" /\ exit_code = 0)
         /\ rounds[Len(rounds)].decision = "Stay" =>
              (pc = rounds[Len(rounds)].name \/ (pc = "exited" /\ Len(rounds) = 4))
    /\ pc = "exited" => exit_code = 0
    /\ pc # "exited" => exit_code = NotExited

\* The script has exited on a Fold at the turn, after two rounds that stayed.
C8_Witness ==
    /\ pc = "exited"
    /\ Len(rounds) = 3
    /\ rounds[3].decision = "Fold"
    /\ rounds[3].win_prob # Zero

-----------------------------------------------------------------------------
(* Claims about the planner *)

\* The free cells next to a cell.
Neighbours(rc) ==
    {n \in FreeCells(grid) :
        (n[1] = rc[1] /\ (n[2] = rc[2] + 1 \/ n[2] = rc[2] - 1))
        \/ (n[2] = rc[2] /\ (n[1] = rc[1] + 1 \/ n[1] = rc[1] - 1))}

\* The cells that can be walked to from those of S.
RECURSIVE ReachableFrom(_)
ReachableFrom(S) ==
    LET T == S \cup UNION {Neighbours(rc) : rc \in S}
    IN IF T = S THEN S ELSE ReachableFrom(T)

AllDirtyReachable ==
    start_state[3] \subseteq ReachableFrom({<<start_state[1], start_state[2]>>})

\* The cell an action moves to by the docstring: N is up, S down, W left,
\* E right.
MoveTo(rc, act) ==
    CASE act = "N" -> <<rc[1] - 1, rc[2]>>
      [] act = "S" -> <<rc[1] + 1, rc[2]>>
      [] act = "W" -> <<rc[1], rc[2] - 1>>
      [] act = "E" -> <<rc[1], rc[2] + 1>>
      [] OTHER -> rc

\* A plan carried out from the cell rc with the cells dirty: whether every
\* action was legal, and the cells left dirty.
RECURSIVE Execute(_, _, _)
Execute(plan, rc, dirty) ==
    IF plan = <<>> THEN [legal |-> TRUE, dirty |-> dirty]
    ELSE IF Head(plan) = "V"
         THEN IF rc \in dirty THEN Execute(Tail(plan), rc, dirty \ {rc})
              ELSE [legal |-> FALSE, dirty |-> dirty]
         ELSE IF Head(plan) \in {"N", "S", "W", "E"}
                 /\ MoveTo(rc, Head(plan)) \in FreeCells(grid)
              THEN Execute(Tail(plan), MoveTo(rc, Head(plan)), dirty)
              ELSE [legal |-> FALSE, dirty |-> dirty]

PlanDone == presult # NotCalled

PlanSound ==
    LET ran == Execute(presult.value.plan,
                       <<start_state[1], start_state[2]>>, start_state[3])
    IN /\ presult.raises = "None"
       /\ presult.value.none <=> ~AllDirtyReachable
       /\ ~presult.value.none => (ran.legal /\ ran.dirty = {})

\* C19: both searches terminate; each returns a plan exactly when every dirty
\* cell can be reached from the start cell, and None otherwise; a plan
\* returned is legal from the start state (no move off the grid or into '#',
\* every V on a cell dirty then) and leaves no cell dirty.
C19_SearchesSoundAndTerminate ==
    /\ <>PlanDone
    /\ [](PlanDone => PlanSound)

\* depth_first_search has returned a plan of more than four actions for a
\* world with two dirty cells.
C19_Witness ==
    /\ PlanDone
    /\ algo = "depth-first"
    /\ ~presult.value.none
    /\ Cardinality(start_state[3]) = 2
    /\ Len(presult.value.plan) > 4

\* The states one legal action leads to.
StatesAfter(st) ==
    {<<n[1], n[2], st[3]>> : n \in Neighbours(<<st[1], st[2]>>)}
    \cup (IF <<st[1], st[2]>> \in st[3]
          THEN {<<st[1], st[2], st[3] \ {<<st[1], st[2]>>}>>}
          ELSE {})

\* The least number of legal actions from a state of the set new (reached in
\* depth actions, seen being all states reached so far) to a state with no
\* dirty cell; -1 when there is none.
RECURSIVE LeastActions(_, _, _)
LeastActions(new, seen, depth) ==
    IF new = {} THEN -1
    ELSE IF \E st \in new : st[3] = {} THEN depth
    ELSE LET next == UNION {StatesAfter(st) : st \in new} \ seen
         IN LeastActions(next, seen \cup next, depth + 1)

\* C20: a plan returned by uniform_cost_search has the least number of
\* actions of all legal sequences that clean every dirty cell, and the costs
\* of the states popped for expansion never decrease.
C20_UniformCostOptimal ==
    algo = "uniform-cost" =>
        /\ \A i \in 1..(Len(expansions) - 1) :
             expansions[i][1] <= expansions[i + 1][1]
        /\ (PlanDone /\ ~presult.value.none) =>
             Len(presult.value.plan)
                 = LeastActions({start_state}, {start_state}, 0)

\* uniform_cost_search has returned a plan of six actions or more for a world
\* with two dirty cells.
C20_Witness ==
    /\ PlanDone
    /\ algo = "uniform-cost"
    /\ ~presult.value.none
    /\ Cardinality(start_state[3]) = 2
    /\ Len(presult.value.plan) >= 6

=============================================================================
